---- MODULE Spec2Model ----
(***************************************************************************)
(* A model of the generic_compression crate: the LZ77, LZ78 and LZW         *)
(* codecs, the Burrows-Wheeler and move-to-front transforms, and the        *)
(* STACK pipeline of the command line tool.                                 *)
(*                                                                          *)
(* Every codec is a pair of loops.  One iteration of a loop is an operator  *)
(* from the loop's local variables (a record, "frame") to their new values; *)
(* an action applies it to the frame of the running call (enc, dec), and a  *)
(* RECURSIVE operator iterates it where a whole call is one step of a       *)
(* caller (the STACK pipeline).  Indices are 0-based as in the source; At   *)
(* and Slice translate them to TLA+ sequences.  A Rust panic is a frame     *)
(* with panic = TRUE and pc = "panic".                                      *)
(***************************************************************************)
EXTENDS Integers, Sequences, FiniteSets, TLC

VARIABLES
    pc,     \* position of the caller: which call runs, or how it ended
    input,  \* the data handed to the encoder
    args,   \* the parameters of the encode and decode calls
    enc,    \* local variables of the encode call
    dec     \* local variables of the decode call

vars == <<pc, input, args, enc, dec>>

(***************************************************************************)
(* Bounds of the model.                                                     *)
(***************************************************************************)
\* number of distinct symbols of the alphabet (symbols are 0..NumSyms-1)
NumSyms == 2
\* greatest length of an input sequence
MaxLen == 5
\* greatest value tried for a numeric parameter (max_offset, max_length, ...)
MaxParam == 2
\* the value the documentation examples and the tests give every numeric
\* parameter
DocParam == 4

\* the values tried for a numeric parameter
Params == (0..MaxParam) \cup {DocParam}

Symbols == 0..(NumSyms - 1)

SeqsUpTo(S, n) == UNION {[1..k -> S] : k \in 0..n}

\* b"ABABABABA", the input of the documentation examples, A = 0 and B = 1
ABABABABA == <<0, 1, 0, 1, 0, 1, 0, 1, 0>>

Inputs == SeqsUpTo(Symbols, MaxLen) \cup {ABABABABA}

(***************************************************************************)
(* Rust vocabulary.                                                         *)
(***************************************************************************)
\* s[k], 0-based
At(s, k) == s[k + 1]

\* s[a..b], 0-based, b exclusive
Slice(s, a, b) == SubSeq(s, a + 1, b)

\* Option<T>
None == [some |-> FALSE]

Some(v) == [some |-> TRUE, val |-> v]

\* usize::saturating_sub
SaturatingSub(a, b) == IF a > b THEN a - b ELSE 0

(***************************************************************************)
(* LZ77                                                                     *)
(***************************************************************************)
RECURSIVE Lz77MatchLengthInclusive(_, _, _, _, _)
\* a plausible slip: k <= max_length, a run one longer than allowed
Lz77MatchLengthInclusive(inp, max_length, i, j, k) ==
    IF k <= max_length /\ i + k + 1 < Len(inp) /\ At(inp, j + k) = At(inp, i + k)
    THEN Lz77MatchLengthInclusive(inp, max_length, i, j, k + 1)
    ELSE k

RECURSIVE Lz77MatchLength(_, _, _, _, _)
\* the inner while loop: the length of the run at j that matches the run at i
Lz77MatchLength(inp, max_length, i, j, k) ==
    IF k < max_length /\ i + k + 1 < Len(inp) /\ At(inp, j + k) = At(inp, i + k)
    THEN Lz77MatchLength(inp, max_length, i, j, k + 1)
    ELSE k

\* a plausible slip: >=, an equally long candidate replaces the best match
Lz77BetterOrEqual(k, m) == k >= (IF m.some THEN m.val.length ELSE 0)

\* a candidate replaces the best match only when strictly longer
Lz77Better(k, m) == k > (IF m.some THEN m.val.length ELSE 0)

\* a plausible slip: the absolute position of the match, not its distance
Lz77OffsetAbsolute(i, j) == j

\* the offset stored for a match at j seen from cursor i
Lz77Offset(i, j) == i - j

RECURSIVE Lz77LongestMatch(_, _, _, _, _, _)
\* for j in (lo..i).rev(): candidates from i-1 down to lo, m the best so far
Lz77LongestMatch(inp, max_length, i, lo, j, m) ==
    IF j < lo THEN m
    ELSE LET k == Lz77MatchLength(inp, max_length, i, j, 0)
             m2 == IF Lz77Better(k, m)
                   THEN Some([offset |-> Lz77Offset(i, j), length |-> k])
                   ELSE m
         IN Lz77LongestMatch(inp, max_length, i, lo, j - 1, m2)

\* a plausible slip: after a match the cursor advances by its length only,
\* not past the literal that follows it
Lz77EncodeStepNoLiteralAdvance(inp, max_offset, max_length, st) ==
    LET m == Lz77LongestMatch(inp, max_length, st.i,
                              SaturatingSub(st.i, max_offset), st.i - 1, None)
    IN IF m.some
       THEN [i |-> st.i + m.val.length,
             output |-> Append(st.output,
                               [offset |-> m.val.offset,
                                length |-> m.val.length,
                                next_char |-> At(inp, st.i + m.val.length)])]
       ELSE [i |-> st.i + 1,
             output |-> Append(st.output,
                               [offset |-> 0, length |-> 0,
                                next_char |-> At(inp, st.i)])]

\* a plausible slip: the literal after a match is read at the cursor, not
\* past the match
Lz77EncodeStepNextAtCursor(inp, max_offset, max_length, st) ==
    LET m == Lz77LongestMatch(inp, max_length, st.i,
                              SaturatingSub(st.i, max_offset), st.i - 1, None)
    IN IF m.some
       THEN [i |-> st.i + m.val.length + 1,
             output |-> Append(st.output,
                               [offset |-> m.val.offset,
                                length |-> m.val.length,
                                next_char |-> At(inp, st.i)])]
       ELSE [i |-> st.i + 1,
             output |-> Append(st.output,
                               [offset |-> 0, length |-> 0,
                                next_char |-> At(inp, st.i)])]

\* a plausible slip: the window reaches one position farther back than
\* max_offset
Lz77EncodeStepWiderWindow(inp, max_offset, max_length, st) ==
    LET m == Lz77LongestMatch(inp, max_length, st.i,
                              SaturatingSub(st.i, max_offset + 1), st.i - 1,
                              None)
    IN IF m.some
       THEN [i |-> st.i + m.val.length + 1,
             output |-> Append(st.output,
                               [offset |-> m.val.offset,
                                length |-> m.val.length,
                                next_char |-> At(inp, st.i + m.val.length)])]
       ELSE [i |-> st.i + 1,
             output |-> Append(st.output,
                               [offset |-> 0, length |-> 0,
                                next_char |-> At(inp, st.i)])]

\* one iteration of the while loop of lz77_encode; st = [i, output]
Lz77EncodeStep(inp, max_offset, max_length, st) ==
    LET m == Lz77LongestMatch(inp, max_length, st.i,
                              SaturatingSub(st.i, max_offset), st.i - 1, None)
    IN IF m.some
       THEN [i |-> st.i + m.val.length + 1,
             output |-> Append(st.output,
                               [offset |-> m.val.offset,
                                length |-> m.val.length,
                                next_char |-> At(inp, st.i + m.val.length)])]
       ELSE [i |-> st.i + 1,
             output |-> Append(st.output,
                               [offset |-> 0, length |-> 0,
                                next_char |-> At(inp, st.i)])]

\* a plausible slip: the match is copied as one slice of the output as it
\* was before the entry (extend_from_slice), which cannot overlap its own
\* copy
Lz77CopySlice(out, start, length, t) ==
    IF start + length > Len(out) THEN [panic |-> TRUE, output |-> out]
    ELSE [panic |-> FALSE, output |-> out \o Slice(out, start, start + length)]

RECURSIVE Lz77Copy(_, _, _, _)
\* for i in 0..entry.length: output.push(output[start + i]); indexing past the
\* end of output panics
Lz77Copy(out, start, length, t) ==
    IF t >= length THEN [panic |-> FALSE, output |-> out]
    ELSE IF start + t >= Len(out) THEN [panic |-> TRUE, output |-> out]
    ELSE Lz77Copy(Append(out, At(out, start + t)), start, length, t + 1)

\* the outcomes of one iteration of the for loop of lz77_decode on entry e.
\* output.len() - entry.offset underflows when the offset exceeds the output:
\* a panic with overflow checks; without them start wraps, any copy indexes
\* out of bounds and panics, and an entry of length 0 only appends next_char.
Lz77DecodeEntry(out, e) ==
    IF e.offset > Len(out)
    THEN {[panic |-> TRUE, output |-> out]}
         \cup (IF e.length = 0
               THEN {[panic |-> FALSE, output |-> Append(out, e.next_char)]}
               ELSE {})
    ELSE LET c == Lz77Copy(out, Len(out) - e.offset, e.length, 0)
         IN IF c.panic THEN {c}
            ELSE {[panic |-> FALSE, output |-> Append(c.output, e.next_char)]}

InitLZ77 ==
    /\ input \in Inputs
    /\ \E mo \in Params, ml \in Params :
          args = [max_offset |-> mo, max_length |-> ml]
    /\ enc = [i |-> 0, output |-> <<>>]
    /\ dec = [pos |-> 0, output |-> <<>>]
    /\ pc = "encode"

Lz77EncodeLoop ==
    /\ pc = "encode"
    /\ enc.i < Len(input)
    /\ enc' = Lz77EncodeStep(input, args.max_offset, args.max_length, enc)
    /\ UNCHANGED <<pc, input, args, dec>>

\* lz77_encode returns and its caller hands the entries to lz77_decode
Lz77EncodeReturn ==
    /\ pc = "encode"
    /\ enc.i >= Len(input)
    /\ pc' = "decode"
    /\ UNCHANGED <<input, args, enc, dec>>

Lz77DecodeLoop ==
    /\ pc = "decode"
    /\ dec.pos < Len(enc.output)
    /\ \E r \in Lz77DecodeEntry(dec.output, At(enc.output, dec.pos)) :
          IF r.panic
          THEN pc' = "panic" /\ UNCHANGED dec
          ELSE pc' = pc /\ dec' = [pos |-> dec.pos + 1, output |-> r.output]
    /\ UNCHANGED <<input, args, enc>>

Lz77DecodeReturn ==
    /\ pc = "decode"
    /\ dec.pos >= Len(enc.output)
    /\ pc' = "done"
    /\ UNCHANGED <<input, args, enc, dec>>

NextLZ77 ==
    \/ Lz77EncodeLoop
    \/ Lz77EncodeReturn
    \/ Lz77DecodeLoop
    \/ Lz77DecodeReturn

SpecLZ77 == InitLZ77 /\ [][NextLZ77]_vars

(***************************************************************************)
(* C1: decoding what lz77_encode produced gives back the input, for every   *)
(* input (empty, single symbol, repetitive) and every max_offset and        *)
(* max_length; neither call panics.                                         *)
(***************************************************************************)
C1_Lz77RoundTrip ==
    /\ pc # "panic"
    /\ pc = "done" => dec.output = input

\* a finished round trip of a full-length input that used a match
C1_Witness ==
    /\ pc = "done"
    /\ Len(input) = MaxLen
    /\ \E k \in 1..Len(enc.output) : enc.output[k].length > 1
    /\ dec.output = input

(***************************************************************************)
(* LZ78                                                                     *)
(***************************************************************************)
\* LZ78entry::resolve: the symbols an entry stands for; dictionary[index]
\* panics when the index is out of bounds
Lz78Resolve(e, dictionary) ==
    IF e.index.some
    THEN IF e.index.val < Len(dictionary)
         THEN [panic |-> FALSE,
               val |-> Append(At(dictionary, e.index.val), e.next_char)]
         ELSE [panic |-> TRUE, val |-> <<>>]
    ELSE [panic |-> FALSE, val |-> <<e.next_char>>]

\* the "sanity check" of the dictionary scan: entry idx is skipped
Lz78Skip(inp, lookahead_max, i, entry) ==
    \/ Len(entry) > lookahead_max
    \/ i + Len(entry) + 1 > Len(inp)
    \/ Slice(inp, i, i + Len(entry)) # entry

RECURSIVE Lz78FirstPrefix(_, _, _, _, _, _)
\* a plausible slip: the first entry that passes the check is kept, a longer
\* one found later does not replace it
Lz78FirstPrefix(inp, lookahead_max, i, dictionary, idx, longest) ==
    IF idx >= Len(dictionary) THEN longest
    ELSE LET entry == At(dictionary, idx)
             l2 == IF Lz78Skip(inp, lookahead_max, i, entry) THEN longest
                   ELSE IF longest.some THEN longest ELSE Some(idx)
         IN Lz78FirstPrefix(inp, lookahead_max, i, dictionary, idx + 1, l2)

RECURSIVE Lz78LongestPrefix(_, _, _, _, _, _)
\* for (idx, entry) in dictionary.iter().enumerate(), longest the best so far
Lz78LongestPrefix(inp, lookahead_max, i, dictionary, idx, longest) ==
    IF idx >= Len(dictionary) THEN longest
    ELSE LET entry == At(dictionary, idx)
             l2 == IF Lz78Skip(inp, lookahead_max, i, entry) THEN longest
                   ELSE IF longest.some
                        THEN IF Len(entry) > Len(At(dictionary, longest.val))
                             THEN Some(idx)
                             ELSE longest
                        ELSE Some(idx)
         IN Lz78LongestPrefix(inp, lookahead_max, i, dictionary, idx + 1, l2)

\* a plausible slip: the encoder never checks whether the dictionary is full
Lz78EncodeInsertUnbounded(dictionary, max_dictionary_size, new_dict_entry) ==
    [panic |-> FALSE, dictionary |-> Append(dictionary, new_dict_entry)]

\* the insertion of lz78_encode: a full dictionary overwrites slot 0
\* (get_mut(0).unwrap() panics on an empty dictionary), otherwise push
Lz78EncodeInsert(dictionary, max_dictionary_size, new_dict_entry) ==
    IF Len(dictionary) = max_dictionary_size
    THEN IF Len(dictionary) = 0
         THEN [panic |-> TRUE, dictionary |-> dictionary]
         ELSE [panic |-> FALSE,
               dictionary |-> [dictionary EXCEPT ![1] = new_dict_entry]]
    ELSE [panic |-> FALSE, dictionary |-> Append(dictionary, new_dict_entry)]

\* a plausible slip: the decoder overwrites the last slot, not slot 0
Lz78DecodeInsertLast(dictionary, max_dictionary_size, resolved) ==
    IF Len(dictionary) = max_dictionary_size
    THEN IF Len(dictionary) = 0
         THEN [panic |-> TRUE, dictionary |-> dictionary]
         ELSE [panic |-> FALSE,
               dictionary |-> [dictionary EXCEPT ![Len(dictionary)] = resolved]]
    ELSE [panic |-> FALSE, dictionary |-> Append(dictionary, resolved)]

\* the insertion of lz78_decode, the same rule
Lz78DecodeInsert(dictionary, max_dictionary_size, resolved) ==
    IF Len(dictionary) = max_dictionary_size
    THEN IF Len(dictionary) = 0
         THEN [panic |-> TRUE, dictionary |-> dictionary]
         ELSE [panic |-> FALSE,
               dictionary |-> [dictionary EXCEPT ![1] = resolved]]
    ELSE [panic |-> FALSE, dictionary |-> Append(dictionary, resolved)]

\* one iteration of the while loop of lz78_encode; st = [i, dictionary,
\* output, panic]
Lz78EncodeStep(inp, lookahead_max, max_dictionary_size, st) ==
    LET longest_prefix ==
            Lz78LongestPrefix(inp, lookahead_max, st.i, st.dictionary, 0, None)
        i2 == IF longest_prefix.some
              THEN st.i + Len(At(st.dictionary, longest_prefix.val)) + 1
              ELSE st.i + 1
        new_entry == [index |-> longest_prefix, next_char |-> At(inp, i2 - 1)]
        new_dict_entry == Lz78Resolve(new_entry, st.dictionary)
        ins == Lz78EncodeInsert(st.dictionary, max_dictionary_size,
                               new_dict_entry.val)
    IN IF new_dict_entry.panic \/ ins.panic
       THEN [st EXCEPT !.i = i2, !.panic = TRUE]
       ELSE [i |-> i2, dictionary |-> ins.dictionary,
             output |-> Append(st.output, new_entry), panic |-> FALSE]

RECURSIVE Lz78EncodeRun(_, _, _, _, _)
\* the while loop of lz78_encode until it has emitted n entries, or to its end
Lz78EncodeRun(inp, lookahead_max, max_dictionary_size, n, st) ==
    IF st.panic \/ st.i >= Len(inp) \/ Len(st.output) >= n THEN st
    ELSE Lz78EncodeRun(inp, lookahead_max, max_dictionary_size, n,
                       Lz78EncodeStep(inp, lookahead_max,
                                      max_dictionary_size, st))

\* the local variables of lz78_encode before its loop
Lz78Start ==
    [i |-> 0, dictionary |-> <<>>, output |-> <<>>, panic |-> FALSE]

\* a plausible slip: the decoder stores the entry's literal, not the resolved
\* entry
Lz78DecodeStepInsertLiteral(e, max_dictionary_size, st) ==
    LET resolved == Lz78Resolve(e, st.dictionary)
        ins == Lz78DecodeInsert(st.dictionary, max_dictionary_size,
                                <<e.next_char>>)
    IN IF resolved.panic THEN [st EXCEPT !.panic = TRUE]
       ELSE IF ins.panic
       THEN [st EXCEPT !.output = st.output \o resolved.val, !.panic = TRUE]
       ELSE [pos |-> st.pos + 1, dictionary |-> ins.dictionary,
             output |-> st.output \o resolved.val, panic |-> FALSE]

\* one iteration of the for loop of lz78_decode on entry e; st = [pos,
\* dictionary, output, panic]
Lz78DecodeStep(e, max_dictionary_size, st) ==
    LET resolved == Lz78Resolve(e, st.dictionary)
        ins == Lz78DecodeInsert(st.dictionary, max_dictionary_size, resolved.val)
    IN IF resolved.panic THEN [st EXCEPT !.panic = TRUE]
       ELSE IF ins.panic
       THEN [st EXCEPT !.output = st.output \o resolved.val, !.panic = TRUE]
       ELSE [pos |-> st.pos + 1, dictionary |-> ins.dictionary,
             output |-> st.output \o resolved.val, panic |-> FALSE]

InitLZ78 ==
    /\ input \in Inputs
    /\ \E la \in Params, m \in Params :
          args = [lookahead_max |-> la, max_dictionary_size |-> m]
    /\ enc = [i |-> 0, dictionary |-> <<>>, output |-> <<>>, panic |-> FALSE]
    /\ dec = [pos |-> 0, dictionary |-> <<>>, output |-> <<>>, panic |-> FALSE]
    /\ pc = "encode"

Lz78EncodeLoop ==
    /\ pc = "encode"
    /\ enc.i < Len(input)
    /\ enc' = Lz78EncodeStep(input, args.lookahead_max,
                             args.max_dictionary_size, enc)
    /\ pc' = IF enc'.panic THEN "panic" ELSE pc
    /\ UNCHANGED <<input, args, dec>>

\* lz78_encode returns and its caller hands the entries to lz78_decode
Lz78EncodeReturn ==
    /\ pc = "encode"
    /\ enc.i >= Len(input)
    /\ pc' = "decode"
    /\ UNCHANGED <<input, args, enc, dec>>

Lz78DecodeLoop ==
    /\ pc = "decode"
    /\ dec.pos < Len(enc.output)
    /\ dec' = Lz78DecodeStep(At(enc.output, dec.pos),
                             args.max_dictionary_size, dec)
    /\ pc' = IF dec'.panic THEN "panic" ELSE pc
    /\ UNCHANGED <<input, args, enc>>

Lz78DecodeReturn ==
    /\ pc = "decode"
    /\ dec.pos >= Len(enc.output)
    /\ pc' = "done"
    /\ UNCHANGED <<input, args, enc, dec>>

NextLZ78 ==
    \/ Lz78EncodeLoop
    \/ Lz78EncodeReturn
    \/ Lz78DecodeLoop
    \/ Lz78DecodeReturn

SpecLZ78 == InitLZ78 /\ [][NextLZ78]_vars

(***************************************************************************)
(* C2: with max_dictionary_size >= 1, decoding what lz78_encode produced,   *)
(* with the same max_dictionary_size, gives back the input, for every       *)
(* input and lookahead_max, also when the dictionary filled up and slot 0   *)
(* was overwritten; neither call panics.                                    *)
(***************************************************************************)
C2_Lz78RoundTrip ==
    args.max_dictionary_size >= 1 =>
        /\ pc # "panic"
        /\ pc = "done" => dec.output = input

\* a finished round trip that emitted more entries than the dictionary
\* holds, one of them referring to the overwritten slot 0
C2_Witness ==
    /\ pc = "done"
    /\ args.max_dictionary_size >= 1
    /\ Len(enc.output) > args.max_dictionary_size + 1
    /\ \E k \in (args.max_dictionary_size + 2)..Len(enc.output) :
          enc.output[k].index = Some(0)
    /\ dec.output = input

(***************************************************************************)
(* C10: with max_dictionary_size m >= 1 the dictionary of lz78_encode and   *)
(* of lz78_decode never holds more than m entries, and once the dictionary  *)
(* of a call holds m entries it holds exactly m entries after every later   *)
(* step of the call.                                                        *)
(***************************************************************************)
C10_Lz78DictionaryBound ==
    /\ [](args.max_dictionary_size >= 1 =>
             /\ Len(enc.dictionary) <= args.max_dictionary_size
             /\ Len(dec.dictionary) <= args.max_dictionary_size)
    /\ [][args.max_dictionary_size >= 1 =>
             /\ Len(enc.dictionary) = args.max_dictionary_size
                   => Len(enc'.dictionary) = args.max_dictionary_size
             /\ Len(dec.dictionary) = args.max_dictionary_size
                   => Len(dec'.dictionary) = args.max_dictionary_size]_vars

\* both dictionaries are full and insertions went on after they filled up
C10_Witness ==
    /\ pc = "done"
    /\ args.max_dictionary_size >= 1
    /\ Len(enc.output) > args.max_dictionary_size
    /\ Len(enc.dictionary) = args.max_dictionary_size
    /\ Len(dec.dictionary) = args.max_dictionary_size

(***************************************************************************)
(* C17: lz78_encode and lz78_decode never fail, for every input, every      *)
(* lookahead_max and every max_dictionary_size, 0 included.                 *)
(***************************************************************************)
C17_Lz78RunsToCompletion ==
    /\ ~enc.panic
    /\ ~dec.panic

\* the 1-based slots of dictionary whose entry lz78_encode may use at cursor i:
\* not longer than lookahead_max, leaving a symbol after it, equal to the
\* input at i
Lz78Usable(inp, lookahead_max, i, dictionary) ==
    {k \in 1..Len(dictionary) :
        /\ Len(dictionary[k]) <= lookahead_max
        /\ i + Len(dictionary[k]) < Len(inp)
        /\ dictionary[k] = Slice(inp, i, i + Len(dictionary[k]))}

(***************************************************************************)
(* C24: at every cursor i the index lz78_encode emits is the lowest index   *)
(* among the longest dictionary entries of length L <= lookahead_max with   *)
(* i + L < len(input) that equal input[i..i+L]; the index is absent exactly *)
(* when there is no such entry; the next symbol is input[i+L] (input[i]     *)
(* without index) and the cursor advances by L + 1.                         *)
(***************************************************************************)
C24_Lz78LongestLowestIndex ==
    [][(pc = "encode" /\ enc'.output # enc.output) =>
        LET e == enc'.output[Len(enc'.output)]
            d == enc.dictionary
            usable == Lz78Usable(input, args.lookahead_max, enc.i, d)
            L == IF e.index.some THEN Len(At(d, e.index.val)) ELSE 0
        IN /\ e.index.some <=> usable # {}
           /\ e.index.some =>
                 /\ e.index.val + 1 \in usable
                 /\ \A k \in usable :
                       \/ Len(d[k]) < L
                       \/ Len(d[k]) = L /\ k >= e.index.val + 1
           /\ e.next_char = At(input, enc.i + L)
           /\ enc'.i = enc.i + L + 1]_vars

\* the call returned entries that name a slot other than 0, one of them
\* after the dictionary was full
C24_Witness ==
    /\ pc = "done"
    /\ Len(enc.output) > args.max_dictionary_size
    /\ \E n \in 1..Len(enc.output) :
          /\ enc.output[n].index.some
          /\ enc.output[n].index.val >= 1
    /\ enc.output[Len(enc.output)].index.some

(***************************************************************************)
(* C25: with max_dictionary_size m >= 1, when lz78_decode has processed t   *)
(* of the entries lz78_encode emitted, its dictionary equals, slot for      *)
(* slot, the dictionary lz78_encode had after emitting t entries, also      *)
(* after slot 0 was overwritten; so the index of the entry it resolves next *)
(* is a slot of its dictionary, and it does not fail.                       *)
(***************************************************************************)
C25_Lz78DictionariesInLockstep ==
    (args.max_dictionary_size >= 1 /\ pc \in {"decode", "done", "panic"}) =>
        /\ ~dec.panic
        /\ dec.dictionary =
              Lz78EncodeRun(input, args.lookahead_max,
                            args.max_dictionary_size, dec.pos,
                            Lz78Start).dictionary
        /\ (dec.pos < Len(enc.output)
               /\ At(enc.output, dec.pos).index.some) =>
              At(enc.output, dec.pos).index.val < Len(dec.dictionary)
        /\ pc = "done" => dec.dictionary = enc.dictionary

\* the decoder is about to resolve an entry that names slot 0 after slot 0
\* was overwritten, and entries remain after it
C25_Witness ==
    /\ pc = "decode"
    /\ args.max_dictionary_size >= 1
    /\ dec.pos > args.max_dictionary_size
    /\ dec.pos + 1 < Len(enc.output)
    /\ At(enc.output, dec.pos).index = Some(0)
    /\ dec.dictionary # enc.dictionary

RECURSIVE Lz78EncodeStamps(_, _)
\* for each slot of the dictionary of lz78_encode after n insertions, the
\* number (1..n) of the insertion that filled it
Lz78EncodeStamps(n, max_dictionary_size) ==
    IF n = 0 THEN <<>>
    ELSE Lz78EncodeInsert(Lz78EncodeStamps(n - 1, max_dictionary_size),
                          max_dictionary_size, n).dictionary

RECURSIVE Lz78DecodeStamps(_, _)
\* the same for lz78_decode
Lz78DecodeStamps(n, max_dictionary_size) ==
    IF n = 0 THEN <<>>
    ELSE Lz78DecodeInsert(Lz78DecodeStamps(n - 1, max_dictionary_size),
                          max_dictionary_size, n).dictionary

\* going from before to after, the slot whose content was replaced held the
\* earliest insertion
Lz78EvictedOldest(before, after) ==
    \A k \in 1..Len(before) :
        after[k] # before[k] => \A j \in 1..Len(before) : before[k] <= before[j]

(***************************************************************************)
(* C26: once the dictionary holds max_dictionary_size entries, an insertion *)
(* of lz78_encode or of lz78_decode replaces the entry that was inserted    *)
(* earliest among those held.                                               *)
(***************************************************************************)
C26_Lz78EvictsOldest ==
    args.max_dictionary_size >= 1 =>
        /\ Len(enc.output) > args.max_dictionary_size =>
              Lz78EvictedOldest(
                  Lz78EncodeStamps(Len(enc.output) - 1,
                                   args.max_dictionary_size),
                  Lz78EncodeStamps(Len(enc.output), args.max_dictionary_size))
        /\ dec.pos > args.max_dictionary_size =>
              Lz78EvictedOldest(
                  Lz78DecodeStamps(dec.pos - 1, args.max_dictionary_size),
                  Lz78DecodeStamps(dec.pos, args.max_dictionary_size))

(***************************************************************************)
(* LZ77 and LZ78 side by side                                               *)
(***************************************************************************)
\* "rabarbarbar", the input of the documentation examples of lz78, r = 0,
\* a = 1 and b = 2
RABARBARBAR == <<0, 1, 2, 1, 0, 2, 1, 0, 2, 1, 0>>

LzInputs == Inputs \cup {RABARBARBAR}

\* a run of lz77_encode, or a run of lz78_encode, on the same inputs
InitLZ ==
    /\ input \in LzInputs
    /\ \/ /\ \E mo \in Params, ml \in Params :
                args = [max_offset |-> mo, max_length |-> ml]
          /\ enc = [i |-> 0, output |-> <<>>]
          /\ dec = [pos |-> 0, output |-> <<>>]
       \/ /\ \E la \in Params, m \in Params :
                args = [lookahead_max |-> la, max_dictionary_size |-> m]
          /\ enc = [i |-> 0, dictionary |-> <<>>, output |-> <<>>,
                    panic |-> FALSE]
          /\ dec = [pos |-> 0, dictionary |-> <<>>, output |-> <<>>,
                    panic |-> FALSE]
    /\ pc = "encode"

\* the run is one of lz77
IsLz77 == "max_offset" \in DOMAIN args

NextLZ ==
    \/ IsLz77 /\ NextLZ77
    \/ ~IsLz77 /\ NextLZ78

SpecLZ == InitLZ /\ [][NextLZ]_vars

RECURSIVE Lz77Covered(_)
\* the sum of (match length + 1) over lz77 entries
Lz77Covered(entries) ==
    IF entries = <<>> THEN 0
    ELSE Head(entries).length + 1 + Lz77Covered(Tail(entries))

\* the match length of an entry: its length field (lz77), the length of the
\* dictionary entry its index named when it was emitted, or 0 without index
LzMatchLength(e, dictionary) ==
    IF IsLz77 THEN e.length
    ELSE IF e.index.some THEN Len(At(dictionary, e.index.val)) ELSE 0

\* some emitted entry has a positive match length
LzSomeMatch ==
    \E k \in 1..Len(enc.output) :
        IF IsLz77 THEN enc.output[k].length > 0 ELSE enc.output[k].index.some

\* the encode call has failed
LzEncodeFailed == ~IsLz77 /\ enc.panic

(***************************************************************************)
(* C16: the entries lz77_encode and lz78_encode emit partition the input:   *)
(* every step emits one entry and moves the cursor by its match length + 1, *)
(* the cursor is the sum of (match length + 1) over the entries emitted and *)
(* is len(s) when the call returns; so the entry count never exceeds the    *)
(* cursor, and is strictly less once an entry has a positive match length.  *)
(***************************************************************************)
C16_LzEntriesPartitionInput ==
    /\ [](~LzEncodeFailed =>
            /\ enc.i <= Len(input)
            /\ pc \in {"decode", "done"} => enc.i = Len(input)
            /\ IsLz77 => Lz77Covered(enc.output) = enc.i
            /\ Len(enc.output) <= enc.i
            /\ LzSomeMatch => Len(enc.output) < enc.i)
    /\ [][(pc = "encode" /\ pc' = "encode" /\ enc' # enc) =>
            /\ Len(enc'.output) = Len(enc.output) + 1
            /\ SubSeq(enc'.output, 1, Len(enc.output)) = enc.output
            /\ enc'.i = enc.i + 1 +
                  LzMatchLength(enc'.output[Len(enc'.output)],
                                IF IsLz77 THEN <<>> ELSE enc.dictionary)]_vars

\* "rabarbarbar" encoded with parameters 4, 4, by either encoder, in fewer
\* entries than it has symbols
C16_Witness ==
    /\ pc = "done"
    /\ input = RABARBARBAR
    /\ \A f \in DOMAIN args : args[f] = DocParam
    /\ LzSomeMatch
    /\ Len(enc.output) < Len(input)

(***************************************************************************)
(* lz77_encode in its two revisions: src/lib/lz/lz77.rs, whose entries      *)
(* always carry a next symbol, and the earlier src/lz/lz77.rs, whose        *)
(* next_char is an Option                                                   *)
(***************************************************************************)
RECURSIVE Lz77MatchLengthEarlier(_, _, _, _, _)
\* the inner while loop of the earlier revision: the run may reach the end
\* of the input
Lz77MatchLengthEarlier(inp, max_length, i, j, k) ==
    IF k < max_length /\ i + k < Len(inp) /\ At(inp, j + k) = At(inp, i + k)
    THEN Lz77MatchLengthEarlier(inp, max_length, i, j, k + 1)
    ELSE k

RECURSIVE Lz77LongestMatchEarlier(_, _, _, _, _, _)
\* for j in (lo..i).rev() of the earlier revision
Lz77LongestMatchEarlier(inp, max_length, i, lo, j, m) ==
    IF j < lo THEN m
    ELSE LET k == Lz77MatchLengthEarlier(inp, max_length, i, j, 0)
             m2 == IF k > (IF m.some THEN m.val.length ELSE 0)
                   THEN Some([offset |-> i - j, length |-> k])
                   ELSE m
         IN Lz77LongestMatchEarlier(inp, max_length, i, lo, j - 1, m2)

\* one iteration of the while loop of the earlier lz77_encode; st = [i,
\* output]; next_char is None when the match reaches the end of the input
Lz77EncodeStepEarlier(inp, max_offset, max_length, st) ==
    LET m == Lz77LongestMatchEarlier(inp, max_length, st.i,
                                     SaturatingSub(st.i, max_offset),
                                     st.i - 1, None)
    IN IF m.some
       THEN [i |-> st.i + m.val.length + 1,
             output |-> Append(st.output,
                               [offset |-> m.val.offset,
                                length |-> m.val.length,
                                next_char |->
                                    IF st.i + m.val.length < Len(inp)
                                    THEN Some(At(inp, st.i + m.val.length))
                                    ELSE None])]
       ELSE [i |-> st.i + 1,
             output |-> Append(st.output,
                               [offset |-> 0, length |-> 0,
                                next_char |-> Some(At(inp, st.i))])]

Lz77Revisions == {"src/lib/lz/lz77.rs", "src/lz/lz77.rs"}

\* a call of lz77_encode of either revision
InitLZ77Encode ==
    /\ input \in Inputs
    /\ \E mo \in Params, ml \in Params, r \in Lz77Revisions :
          args = [max_offset |-> mo, max_length |-> ml, revision |-> r]
    /\ enc = [i |-> 0, output |-> <<>>]
    /\ dec = [pos |-> 0, output |-> <<>>]
    /\ pc = "encode"

Lz77EncodeLoopEarlier ==
    /\ pc = "encode"
    /\ enc.i < Len(input)
    /\ enc' = Lz77EncodeStepEarlier(input, args.max_offset, args.max_length,
                                    enc)
    /\ UNCHANGED <<pc, input, args, dec>>

NextLZ77Encode ==
    \/ args.revision = "src/lib/lz/lz77.rs" /\ Lz77EncodeLoop
    \/ args.revision = "src/lz/lz77.rs" /\ Lz77EncodeLoopEarlier
    \/ Lz77EncodeReturn

SpecLZ77Encode == InitLZ77Encode /\ [][NextLZ77Encode]_vars

\* the cursor at which entry n (1-based) was emitted
Lz77CursorOf(entries, n) == Lz77Covered(SubSeq(entries, 1, n - 1))

\* the run of k symbols at j equals the run of k symbols at i
Lz77RunsAgree(inp, i, j, k) ==
    \A t \in 0..(k - 1) : At(inp, j + t) = At(inp, i + t)

\* the largest k <= max_length with i + k <= limit for which some start j of
\* the window [max(0, i - max_offset), i) gives a run that agrees; 0 if none
Lz77BestLength(inp, max_offset, max_length, i, limit) ==
    LET Fits(k) ==
            /\ i + k <= limit
            /\ \E j \in SaturatingSub(i, max_offset)..(i - 1) :
                  Lz77RunsAgree(inp, i, j, k)
        ks == {k \in 1..max_length : Fits(k)}
    IN IF ks = {} THEN 0 ELSE CHOOSE k \in ks : \A n \in ks : n <= k

\* the next_char field that holds symbol v: v itself, Some(v) in the earlier
\* revision
Lz77NextChar(v) ==
    IF args.revision = "src/lib/lz/lz77.rs" THEN v ELSE Some(v)

\* every emitted entry has the best length within limit, one without match
\* is (0, 0, input[i]), and the cursor has advanced past each entry's match
\* and literal
Lz77EmitsBestLength(limit) ==
    /\ enc.i = Lz77Covered(enc.output)
    /\ \A n \in 1..Len(enc.output) :
          LET e == enc.output[n]
              i == Lz77CursorOf(enc.output, n)
          IN /\ e.length = Lz77BestLength(input, args.max_offset,
                                          args.max_length, i, limit)
             /\ e.length = 0 =>
                   /\ e.offset = 0
                   /\ e.next_char = Lz77NextChar(At(input, i))

(***************************************************************************)
(* C19 as stated: at every cursor i lz77_encode emits the largest match     *)
(* length k with k <= max_length and i + k <= len(input) that some start in *)
(* the window gives; without a match it emits (0, 0, input[i]) and moves    *)
(* the cursor by 1.                                                         *)
(***************************************************************************)
C19_Lz77LongestMatchToEnd ==
    Lz77EmitsBestLength(Len(input))

(***************************************************************************)
(* C19 amended: in src/lib/lz/lz77.rs the emitted length is the largest k   *)
(* with k <= max_length and i + k < len(input), a match always leaving the  *)
(* symbol that follows it; in the earlier src/lz/lz77.rs it is the largest  *)
(* k with i + k <= len(input). Without a match (0, 0, input[i]) is emitted  *)
(* and the cursor moves by 1.                                               *)
(***************************************************************************)
C19_Lz77LongestMatch ==
    Lz77EmitsBestLength(IF args.revision = "src/lib/lz/lz77.rs"
                        THEN Len(input) - 1
                        ELSE Len(input))

\* src/lib/lz/lz77.rs returned, and at the cursor of one of its entries a
\* longer match, reaching the end of the input, was in the window
C19_Witness ==
    /\ pc = "decode"
    /\ args.revision = "src/lib/lz/lz77.rs"
    /\ \E n \in 1..Len(enc.output) :
          /\ enc.output[n].length >= 1
          /\ enc.output[n].length <
                Lz77BestLength(input, args.max_offset, args.max_length,
                               Lz77CursorOf(enc.output, n), Len(input))

(***************************************************************************)
(* C20: when several starts in the window give a run of the emitted length  *)
(* at cursor i, lz77_encode emits the nearest: the emitted offset is the    *)
(* smallest offset at which a run of that length agrees, and such a run     *)
(* does start at the emitted offset.                                        *)
(***************************************************************************)
C20_Lz77NearestMatch ==
    \A n \in 1..Len(enc.output) :
        LET e == enc.output[n]
            i == Lz77CursorOf(enc.output, n)
        IN e.length > 0 =>
              /\ e.offset \in 1..i
              /\ Lz77RunsAgree(input, i, i - e.offset, e.length)
              /\ \A j \in SaturatingSub(i, args.max_offset)..(i - 1) :
                    Lz77RunsAgree(input, i, j, e.length) => e.offset <= i - j

\* an entry whose length is also found at a farther start of the window
C20_Witness ==
    \E n \in 1..Len(enc.output) :
        LET e == enc.output[n]
            i == Lz77CursorOf(enc.output, n)
        IN /\ e.length > 0
           /\ \E j \in SaturatingSub(i, args.max_offset)..(i - 1) :
                 /\ i - j > e.offset
                 /\ Lz77RunsAgree(input, i, j, e.length)

\* the smaller of two numbers
Min(a, b) == IF a < b THEN a ELSE b

(***************************************************************************)
(* C21: every entry lz77_encode emits at cursor i has length <= max_length; *)
(* a positive length comes with 1 <= offset <= min(max_offset, i), length 0 *)
(* with offset 0; its next symbol is input[i + length], and is missing only *)
(* on the last entry, when the match reaches the end of the input.          *)
(***************************************************************************)
C21_Lz77EntryShape ==
    \A n \in 1..Len(enc.output) :
        LET e == enc.output[n]
            i == Lz77CursorOf(enc.output, n)
        IN /\ e.length <= args.max_length
           /\ e.length > 0 =>
                 /\ 1 <= e.offset
                 /\ e.offset <= Min(args.max_offset, i)
           /\ e.length = 0 => e.offset = 0
           /\ IF i + e.length < Len(input)
              THEN e.next_char = Lz77NextChar(At(input, i + e.length))
              ELSE /\ e.next_char = None
                   /\ n = Len(enc.output)
                   /\ i + e.length = Len(input)

\* the earlier revision returned entries the last of which is a match that
\* reaches the end of the input and carries no next symbol
C21_Witness ==
    /\ pc = "decode"
    /\ args.revision = "src/lz/lz77.rs"
    /\ Len(enc.output) >= 2
    /\ enc.output[Len(enc.output)].length > 0
    /\ enc.output[Len(enc.output)].next_char = None

\* the entries of test_nasty_decode: a literal 1, then a match of length 5
\* at offset 1
NastyEntries ==
    <<[offset |-> 0, length |-> 0, next_char |-> 1],
      [offset |-> 1, length |-> 5, next_char |-> 2]>>

\* the entries lz77_decode is tried on when they do not come from
\* lz77_encode: any offset and length within the parameter bound
Lz77Entries ==
    [offset : 0..MaxParam, length : 0..MaxParam, next_char : Symbols]

\* decompression: the entries are read from a file, not made by lz77_encode
\* in this run; enc.output holds them, the encode call is not part of the run
InitLZ77Decode ==
    /\ input = <<>>
    /\ args = <<>>
    /\ \E data \in SeqsUpTo(Lz77Entries, MaxParam) \cup {NastyEntries} :
          enc = [i |-> 0, output |-> data]
    /\ dec = [pos |-> 0, output |-> <<>>]
    /\ pc = "decode"

NextLZ77Decode ==
    \/ Lz77DecodeLoop
    \/ Lz77DecodeReturn

SpecLZ77Decode == InitLZ77Decode /\ [][NextLZ77Decode]_vars

\* out followed by length symbols that repeat its last offset symbols
\* cyclically, followed by next_char
Lz77Replayed(out, e) ==
    out \o [t \in 1..e.length |->
               At(out, Len(out) - e.offset + ((t - 1) % e.offset))]
        \o <<e.next_char>>

C23_Lz77LiteralsOnly ==
    /\ args.max_offset = 0 =>
          /\ enc.output = [k \in 1..enc.i |->
                              [offset |-> 0, length |-> 0,
                               next_char |-> input[k]]]
          /\ pc \in {"decode", "done"} => Len(enc.output) = Len(input)
    /\ input = <<>> => enc.output = <<>>

\* a round trip with max_offset = 0 and max_length >= 1 of an input in which
\* a symbol repeats, so that a wider window would have given a match
C23_Witness ==
    /\ pc = "done"
    /\ args.max_offset = 0
    /\ args.max_length >= 1
    /\ Len(input) >= 3
    /\ input[1] = input[2]
    /\ Len(enc.output) = Len(input)

(***************************************************************************)
(* LZW                                                                      *)
(***************************************************************************)
\* the dictionary both calls start from: one single-symbol entry per member
\* of initial, in order
LzwInitialDictionary(initial) == [k \in 1..Len(initial) |-> <<initial[k]>>]

\* Vec::contains
Contains(dictionary, entry) ==
    \E k \in 1..Len(dictionary) : dictionary[k] = entry

\* a plausible slip: the entry is pushed without the contains test
LzwPushAlways(dictionary, new_entry) == Append(dictionary, new_entry)

\* if !dictionary.contains(&new_entry) { dictionary.push(new_entry) }
LzwPushIfNew(dictionary, new_entry) ==
    IF Contains(dictionary, new_entry) THEN dictionary
    ELSE Append(dictionary, new_entry)

\* the condition under which the dictionary scan of lzw_encode skips an entry
LzwSkip(inp, max_lookahead, i, entry) ==
    \/ Len(entry) > max_lookahead
    \/ i + Len(entry) > Len(inp)
    \/ Slice(inp, i, i + Len(entry)) # entry

RECURSIVE LzwLastLongestPrefix(_, _, _, _, _, _)
\* a plausible slip: >=, an equally long entry found later replaces the best
LzwLastLongestPrefix(inp, max_lookahead, i, dictionary, idx, longest) ==
    IF idx >= Len(dictionary) THEN longest
    ELSE LET entry == At(dictionary, idx)
             l2 == IF LzwSkip(inp, max_lookahead, i, entry) THEN longest
                   ELSE IF longest.some
                        THEN IF Len(entry) >= Len(At(dictionary, longest.val))
                             THEN Some(idx)
                             ELSE longest
                        ELSE Some(idx)
         IN LzwLastLongestPrefix(inp, max_lookahead, i, dictionary, idx + 1, l2)

RECURSIVE LzwLongestPrefix(_, _, _, _, _, _)
\* for (idx, entry) in dictionary.iter().enumerate(), longest the best so far
LzwLongestPrefix(inp, max_lookahead, i, dictionary, idx, longest) ==
    IF idx >= Len(dictionary) THEN longest
    ELSE LET entry == At(dictionary, idx)
             l2 == IF LzwSkip(inp, max_lookahead, i, entry) THEN longest
                   ELSE IF longest.some
                        THEN IF Len(entry) > Len(At(dictionary, longest.val))
                             THEN Some(idx)
                             ELSE longest
                        ELSE Some(idx)
         IN LzwLongestPrefix(inp, max_lookahead, i, dictionary, idx + 1, l2)

\* a plausible slip: the candidate entry is formed only when a symbol
\* remains after the one it takes in (i + 1 < input.len())
LzwEncodeStepNoLastAppend(inp, max_lookahead, st) ==
    LET longest_prefix ==
            LzwLongestPrefix(inp, max_lookahead, st.i, st.dictionary, 0, None)
    IN IF longest_prefix.some
       THEN LET idx == longest_prefix.val
                i2 == st.i + Len(At(st.dictionary, idx))
            IN [i |-> i2,
                output |-> Append(st.output, idx),
                dictionary |->
                    IF i2 + 1 < Len(inp)
                    THEN LzwPushIfNew(st.dictionary,
                                      Append(At(st.dictionary, idx), At(inp, i2)))
                    ELSE st.dictionary,
                panic |-> FALSE]
       ELSE [st EXCEPT !.panic = TRUE]

\* one iteration of the while loop of lzw_encode; st = [i, dictionary,
\* output, panic]
LzwEncodeStep(inp, max_lookahead, st) ==
    LET longest_prefix ==
            LzwLongestPrefix(inp, max_lookahead, st.i, st.dictionary, 0, None)
    IN IF longest_prefix.some
       THEN LET idx == longest_prefix.val
                i2 == st.i + Len(At(st.dictionary, idx))
            IN [i |-> i2,
                output |-> Append(st.output, idx),
                dictionary |->
                    IF i2 < Len(inp)
                    THEN LzwPushIfNew(st.dictionary,
                                      Append(At(st.dictionary, idx), At(inp, i2)))
                    ELSE st.dictionary,
                panic |-> FALSE]
       ELSE [st EXCEPT !.panic = TRUE]

RECURSIVE LzwEncodeRun(_, _, _)
\* while i < input.len() { ... }
LzwEncodeRun(inp, max_lookahead, st) ==
    IF st.panic \/ st.i >= Len(inp) THEN st
    ELSE LzwEncodeRun(inp, max_lookahead, LzwEncodeStep(inp, max_lookahead, st))

RECURSIVE LzwEncodeRunTo(_, _, _, _)
\* the while loop of lzw_encode until it has emitted n indices, or to its end
LzwEncodeRunTo(inp, max_lookahead, n, st) ==
    IF st.panic \/ st.i >= Len(inp) \/ Len(st.output) >= n THEN st
    ELSE LzwEncodeRunTo(inp, max_lookahead, n,
                        LzwEncodeStep(inp, max_lookahead, st))

\* the local variables of lzw_encode and of lzw_decode before their loops
LzwStart(initial) ==
    [i |-> 0, dictionary |-> LzwInitialDictionary(initial), output |-> <<>>,
     panic |-> FALSE]

\* lzw_encode as one call: [panic, output]
LzwEncode(inp, initial, max_lookahead) ==
    LzwEncodeRun(inp, max_lookahead, LzwStart(initial))

\* a plausible slip: no entry is made when the next index is not yet valid
LzwDecodeGrowNoUniqueCase(dictionary, entry, next_idx) ==
    IF next_idx < Len(dictionary)
    THEN LzwPushIfNew(dictionary,
                      Append(entry, At(At(dictionary, next_idx), 0)))
    ELSE dictionary

\* a plausible slip: in the unique case the entry is extended by its last
\* symbol, not its first
LzwDecodeGrowLastSymbol(dictionary, entry, next_idx) ==
    IF next_idx < Len(dictionary)
    THEN LzwPushIfNew(dictionary,
                      Append(entry, At(At(dictionary, next_idx), 0)))
    ELSE LzwPushIfNew(dictionary, Append(entry, At(entry, Len(entry) - 1)))

\* the growth of the decoder's dictionary after it emitted entry, next_idx
\* being the index that follows: entry + the first symbol of the next entry,
\* or entry + its own first symbol when next_idx is not valid yet
LzwDecodeGrow(dictionary, entry, next_idx) ==
    IF next_idx < Len(dictionary)
    THEN LzwPushIfNew(dictionary,
                      Append(entry, At(At(dictionary, next_idx), 0)))
    ELSE LzwPushIfNew(dictionary, Append(entry, At(entry, 0)))

\* a plausible slip: an index outside the dictionary is passed over
\* (dictionary.get(idx) and continue) where indexing panics
LzwDecodeStepSkipInvalid(inp, st) ==
    LET idx == At(inp, st.i)
    IN IF idx >= Len(st.dictionary) THEN [st EXCEPT !.i = st.i + 1]
       ELSE LET entry == At(st.dictionary, idx)
            IN [i |-> st.i + 1,
                output |-> st.output \o entry,
                dictionary |->
                    IF st.i + 1 < Len(inp)
                    THEN LzwDecodeGrow(st.dictionary, entry, At(inp, st.i + 1))
                    ELSE st.dictionary,
                panic |-> FALSE]

\* one iteration of the while loop of lzw_decode over the indices inp;
\* st = [i, dictionary, output, panic]; dictionary[idx] panics when idx is
\* out of bounds
LzwDecodeStep(inp, st) ==
    LET idx == At(inp, st.i)
    IN IF idx >= Len(st.dictionary) THEN [st EXCEPT !.panic = TRUE]
       ELSE LET entry == At(st.dictionary, idx)
            IN [i |-> st.i + 1,
                output |-> st.output \o entry,
                dictionary |->
                    IF st.i + 1 < Len(inp)
                    THEN LzwDecodeGrow(st.dictionary, entry, At(inp, st.i + 1))
                    ELSE st.dictionary,
                panic |-> FALSE]

RECURSIVE LzwDecodeRun(_, _)
\* while i < input.len() { ... }
LzwDecodeRun(inp, st) ==
    IF st.panic \/ st.i >= Len(inp) THEN st
    ELSE LzwDecodeRun(inp, LzwDecodeStep(inp, st))

\* lzw_decode as one call: [panic, output]
LzwDecode(inp, initial) == LzwDecodeRun(inp, LzwStart(initial))

\* the initial dictionaries tried: every sequence of at most NumSyms symbols,
\* so also with a symbol missing or twice
Initials == SeqsUpTo(Symbols, NumSyms)

InitLZW ==
    /\ input \in Inputs
    /\ \E initial \in Initials, la \in Params :
          args = [initial |-> initial, max_lookahead |-> la]
    /\ enc = LzwStart(args.initial)
    /\ dec = LzwStart(args.initial)
    /\ pc = "encode"

LzwEncodeLoop ==
    /\ pc = "encode"
    /\ enc.i < Len(input)
    /\ enc' = LzwEncodeStep(input, args.max_lookahead, enc)
    /\ pc' = IF enc'.panic THEN "panic" ELSE pc
    /\ UNCHANGED <<input, args, dec>>

\* lzw_encode returns and its caller hands the indices to lzw_decode
LzwEncodeReturn ==
    /\ pc = "encode"
    /\ enc.i >= Len(input)
    /\ pc' = "decode"
    /\ UNCHANGED <<input, args, enc, dec>>

LzwDecodeLoop ==
    /\ pc = "decode"
    /\ dec.i < Len(enc.output)
    /\ dec' = LzwDecodeStep(enc.output, dec)
    /\ pc' = IF dec'.panic THEN "panic" ELSE pc
    /\ UNCHANGED <<input, args, enc>>

LzwDecodeReturn ==
    /\ pc = "decode"
    /\ dec.i >= Len(enc.output)
    /\ pc' = "done"
    /\ UNCHANGED <<input, args, enc, dec>>

NextLZW ==
    \/ LzwEncodeLoop
    \/ LzwEncodeReturn
    \/ LzwDecodeLoop
    \/ LzwDecodeReturn

SpecLZW == InitLZW /\ [][NextLZW]_vars

\* every symbol of s occurs in the initial dictionary
Covers(initial, s) ==
    \A k \in 1..Len(s) : \E n \in 1..Len(initial) : initial[n] = s[k]

(***************************************************************************)
(* C3: when every symbol of the input occurs in the initial dictionary and  *)
(* max_lookahead >= 1, decoding what lzw_encode produced, with the same     *)
(* initial dictionary, gives back the input; neither call panics.           *)
(***************************************************************************)
C3_LzwRoundTrip ==
    (Covers(args.initial, input) /\ args.max_lookahead >= 1) =>
        /\ pc # "panic"
        /\ pc = "done" => dec.output = input

\* the round trip of the documentation example, whose fourth index (4) names
\* the entry the preceding step made: the decoder's "index not yet valid" case
C3_Witness ==
    /\ pc = "done"
    /\ input = ABABABABA
    /\ args = [initial |-> <<0, 1>>, max_lookahead |-> 4]
    /\ enc.output = <<0, 1, 2, 4, 3>>
    /\ dec.output = input

\* d2 is d, or d with one entry appended that d did not contain
LzwGrows(d, d2) ==
    \/ d2 = d
    \/ /\ Len(d2) = Len(d) + 1
       /\ SubSeq(d2, 1, Len(d)) = d
       /\ ~Contains(d, d2[Len(d2)])

(***************************************************************************)
(* C11: over every step of lzw_encode and of lzw_decode the dictionary only *)
(* grows: a processed token appends at most one entry, the appended entry   *)
(* equals none already present, and no existing entry is removed or changed.*)
(***************************************************************************)
C11_LzwDictionaryOnlyGrows ==
    [][/\ LzwGrows(enc.dictionary, enc'.dictionary)
       /\ LzwGrows(dec.dictionary, dec'.dictionary)]_vars

\* both calls returned, their dictionaries grew, and the encoder met at least
\* one candidate entry that was already present and did not store it
C11_Witness ==
    /\ pc = "done"
    /\ Len(enc.dictionary) > Len(args.initial)
    /\ Len(enc.dictionary) < Len(args.initial) + Len(enc.output) - 1
    /\ Len(dec.dictionary) > Len(args.initial)

\* the index sequences lzw_decode is tried on when they do not come from
\* lzw_encode: the indices a dictionary of this size can hold, and one more
IndexSeqs == SeqsUpTo(0..(NumSyms + 1), MaxLen)

\* decompression: the indices are read from a file, not made by lzw_encode in
\* this run; enc.output holds them, the encode call is not part of the run
InitLZWDecode ==
    /\ input = <<>>
    /\ \E initial \in Initials :
          args = [initial |-> initial, max_lookahead |-> 0]
    /\ \E data \in IndexSeqs :
          enc = [LzwStart(args.initial) EXCEPT !.output = data]
    /\ dec = LzwStart(args.initial)
    /\ pc = "decode"

NextLZWDecode ==
    \/ LzwDecodeLoop
    \/ LzwDecodeReturn

SpecLZWDecode == InitLZWDecode /\ [][NextLZWDecode]_vars

(***************************************************************************)
(* C12: lzw_decode returns no output for an index sequence holding an index *)
(* that is outside the dictionary at the moment it is resolved: the step    *)
(* that resolves it fails at that token, emits nothing for it, and the call *)
(* never returns afterwards. This covers an index that was peeked as not    *)
(* yet valid and is still not below the dictionary size when its turn comes.*)
(***************************************************************************)
C12_LzwDecodeIndexOutOfBounds ==
    [][/\ (/\ pc = "decode"
           /\ dec.i < Len(enc.output)
           /\ At(enc.output, dec.i) >= Len(dec.dictionary))
          => /\ pc' = "panic"
             /\ dec'.i = dec.i
             /\ dec'.output = dec.output
       /\ pc = "panic" => pc' = "panic"]_vars

\* indices 0,1,0,3 over the initial dictionary [0]: the third step peeks 3,
\* which equals the dictionary size, and appends nothing because [0,0] is
\* already present; the call fails when 3 is resolved, having emitted the
\* three entries before it
C12_Witness ==
    /\ pc = "panic"
    /\ args.initial = <<0>>
    /\ enc.output = <<0, 1, 0, 3>>
    /\ dec.i = 3
    /\ Len(dec.dictionary) = 3
    /\ dec.output = <<0, 0, 0, 0>>

\* symbol occurs in the initial dictionary
InInitial(initial, symbol) ==
    \E n \in 1..Len(initial) : initial[n] = symbol

(***************************************************************************)
(* C14: when the input holds a symbol that is not in the initial            *)
(* dictionary, lzw_encode never returns, and it fails with its cursor on    *)
(* the first such symbol: the symbol under the cursor is not in the initial *)
(* dictionary and every symbol before it is.                                *)
(***************************************************************************)
C14_LzwUncoveredSymbolFails ==
    ~Covers(args.initial, input) =>
        /\ pc \notin {"decode", "done"}
        /\ enc.panic =>
              /\ ~InInitial(args.initial, At(input, enc.i))
              /\ Covers(args.initial, Slice(input, 0, enc.i))

(***************************************************************************)
(* C15: when every symbol of the input occurs in the initial dictionary,    *)
(* lzw_encode never fails, whatever max_lookahead is (0 included).          *)
(***************************************************************************)
C15_LzwCoveredNeverFails ==
    Covers(args.initial, input) => ~enc.panic

(***************************************************************************)
(* C18 as stated: lzw_encode's dictionary grows by exactly one entry per    *)
(* emitted index, so that it holds len(initial) + t entries after t indices.*)
(***************************************************************************)
C18_LzwDictionaryGrowsExactly ==
    Len(enc.dictionary) = Len(args.initial) + Len(enc.output)

(***************************************************************************)
(* C18 amended: lzw_encode's dictionary grows by at most one entry per      *)
(* emitted index, so that it holds at most len(initial) + t entries after t *)
(* indices; the step that emits an index appends an entry exactly when      *)
(* input remains after the match and the matched symbols followed by the    *)
(* next input symbol are not an entry already.                              *)
(***************************************************************************)
C18_LzwDictionaryGrowth ==
    /\ [](Len(enc.dictionary) <= Len(args.initial) + Len(enc.output))
    /\ [][(pc = "encode" /\ enc'.output # enc.output) =>
            Len(enc'.dictionary) = Len(enc.dictionary) +
                (IF /\ enc'.i < Len(input)
                    /\ ~Contains(enc.dictionary,
                                 Slice(input, enc.i, enc'.i + 1))
                 THEN 1 ELSE 0)]_vars

\* AAA over the initial dictionary [A] with max_lookahead 1: three indices,
\* one appended entry; the second step met AA again and the third had no
\* input left
C18_Witness ==
    /\ pc = "done"
    /\ input = <<0, 0, 0>>
    /\ args = [initial |-> <<0>>, max_lookahead |-> 1]
    /\ enc.output = <<0, 0, 0>>
    /\ enc.dictionary = <<<<0>>, <<0, 0>>>>

(***************************************************************************)
(* C27: with max_lookahead >= 1, when lzw_decode has processed t of the     *)
(* indices lzw_encode emitted, its dictionary equals the dictionary         *)
(* lzw_encode had after emitting t indices; and when the index that follows *)
(* is not valid yet, the decoder appends the current entry + its own first  *)
(* symbol, which creates exactly the entry that index names.                *)
(***************************************************************************)
C27_LzwDictionariesInLockstep ==
    /\ []((args.max_lookahead >= 1 /\ pc \in {"decode", "done", "panic"}) =>
            /\ ~dec.panic
            /\ dec.dictionary =
                  LzwEncodeRunTo(input, args.max_lookahead, dec.i,
                                 LzwStart(args.initial)).dictionary
            /\ pc = "done" => dec.dictionary = enc.dictionary)
    /\ [][(/\ args.max_lookahead >= 1
           /\ pc = "decode"
           /\ dec.i + 1 < Len(enc.output)
           /\ At(enc.output, dec.i + 1) >= Len(dec.dictionary))
          => LET entry == At(dec.dictionary, At(enc.output, dec.i))
             IN /\ At(enc.output, dec.i + 1) = Len(dec.dictionary)
                /\ dec'.dictionary =
                      Append(dec.dictionary, Append(entry, At(entry, 0)))]_vars

\* the decoder, its dictionary already grown, is at an index that is
\* followed by one that is not valid yet
C27_Witness ==
    /\ pc = "decode"
    /\ args.max_lookahead >= 1
    /\ Len(dec.dictionary) > Len(args.initial)
    /\ dec.i + 1 < Len(enc.output)
    /\ At(enc.output, dec.i + 1) >= Len(dec.dictionary)

\* the 1-based slots of dictionary whose entry lzw_encode may use at cursor i:
\* not longer than max_lookahead, within the remaining input, equal to the
\* input at i
LzwUsable(inp, max_lookahead, i, dictionary) ==
    {k \in 1..Len(dictionary) :
        /\ Len(dictionary[k]) <= max_lookahead
        /\ i + Len(dictionary[k]) <= Len(inp)
        /\ dictionary[k] = Slice(inp, i, i + Len(dictionary[k]))}

(***************************************************************************)
(* C28: at every cursor i the index lzw_encode emits is the lowest index    *)
(* among the longest dictionary entries of length <= max_lookahead that fit *)
(* in the remaining input and equal input[i..i+length], and the cursor      *)
(* advances by that length; index k < len(initial) stands for [initial[k]]; *)
(* ABABABABA with initial AB and max_lookahead 4 gives 0, 1, 2, 4, 3.       *)
(***************************************************************************)
C28_LzwLongestLowestIndex ==
    /\ [](/\ \A k \in 1..Len(args.initial) :
                enc.dictionary[k] = <<args.initial[k]>>
          /\ (/\ input = ABABABABA
              /\ args = [initial |-> <<0, 1>>, max_lookahead |-> DocParam]
              /\ pc \in {"decode", "done"})
             => enc.output = <<0, 1, 2, 4, 3>>)
    /\ [][(pc = "encode" /\ enc'.output # enc.output) =>
            LET idx == enc'.output[Len(enc'.output)]
                d == enc.dictionary
                usable == LzwUsable(input, args.max_lookahead, enc.i, d)
            IN /\ idx + 1 \in usable
               /\ \A k \in usable :
                     \/ Len(d[k]) < Len(d[idx + 1])
                     \/ Len(d[k]) = Len(d[idx + 1]) /\ k >= idx + 1
               /\ enc'.i = enc.i + Len(d[idx + 1])]_vars

\* a symbol that is twice in the initial dictionary was encoded by its first
\* slot, and a longer entry was used later
C28_Witness ==
    /\ pc = "done"
    /\ args.initial = <<0, 0>>
    /\ Len(enc.output) >= 2
    /\ enc.output[1] = 0
    /\ \E n \in 1..Len(enc.output) : enc.output[n] >= 2

(***************************************************************************)
(* Move to front                                                            *)
(***************************************************************************)
\* a plausible slip: rposition, the last index holding el
PositionLast(ordering, el) ==
    IF \E k \in 1..Len(ordering) : ordering[k] = el
    THEN Some((CHOOSE k \in 1..Len(ordering) :
                  /\ ordering[k] = el
                  /\ \A n \in (k + 1)..Len(ordering) : ordering[n] # el) - 1)
    ELSE None

\* ordering.iter().position(|x| x == el): the first index holding el
Position(ordering, el) ==
    IF \E k \in 1..Len(ordering) : ordering[k] = el
    THEN Some((CHOOSE k \in 1..Len(ordering) :
                  /\ ordering[k] = el
                  /\ \A n \in 1..(k - 1) : ordering[n] # el) - 1)
    ELSE None

\* Vec::remove(idx)
Remove(v, idx) == Slice(v, 0, idx) \o Slice(v, idx + 1, Len(v))

\* ordering.remove(idx); ordering.insert(0, el)
MoveToFront(ordering, idx, el) == <<el>> \o Remove(ordering, idx)

\* a plausible slip: the symbol is put in front without being removed
MtfEncodeStepNoRemove(inp, st) ==
    LET el == At(inp, st.pos)
        idx == Position(st.ordering, el)
    IN IF ~idx.some THEN [st EXCEPT !.panic = TRUE]
       ELSE [pos |-> st.pos + 1,
             result |-> Append(st.result, idx.val),
             ordering |-> <<el>> \o st.ordering,
             panic |-> FALSE]

\* one iteration of the for loop of encode_move_to_front; st = [pos, result,
\* ordering, panic]
MtfEncodeStep(inp, st) ==
    LET el == At(inp, st.pos)
        idx == Position(st.ordering, el)
    IN IF ~idx.some THEN [st EXCEPT !.panic = TRUE]
       ELSE [pos |-> st.pos + 1,
             result |-> Append(st.result, idx.val),
             ordering |-> MoveToFront(st.ordering, idx.val, el),
             panic |-> FALSE]

\* a plausible slip: the decoder leaves its ordering as it is
MtfDecodeStepNoMove(inp, st) ==
    LET idx == At(inp, st.pos)
    IN IF idx >= Len(st.ordering) THEN [st EXCEPT !.panic = TRUE]
       ELSE [pos |-> st.pos + 1,
             result |-> Append(st.result, At(st.ordering, idx)),
             ordering |-> st.ordering,
             panic |-> FALSE]

\* a plausible slip: an index outside the ordering is passed over
\* (ordering.get(idx) and continue) where indexing panics
MtfDecodeStepSkipInvalid(inp, st) ==
    LET idx == At(inp, st.pos)
    IN IF idx >= Len(st.ordering) THEN [st EXCEPT !.pos = st.pos + 1]
       ELSE LET el == At(st.ordering, idx)
            IN [pos |-> st.pos + 1,
                result |-> Append(st.result, el),
                ordering |-> MoveToFront(st.ordering, idx, el),
                panic |-> FALSE]

\* one iteration of the for loop of decode_move_to_front over the indices
\* inp; st = [pos, result, ordering, panic]
MtfDecodeStep(inp, st) ==
    LET idx == At(inp, st.pos)
    IN IF idx >= Len(st.ordering) THEN [st EXCEPT !.panic = TRUE]
       ELSE LET el == At(st.ordering, idx)
            IN [pos |-> st.pos + 1,
                result |-> Append(st.result, el),
                ordering |-> MoveToFront(st.ordering, idx, el),
                panic |-> FALSE]

\* the local variables of either call before its loop
MtfStart(ordering) ==
    [pos |-> 0, result |-> <<>>, ordering |-> ordering, panic |-> FALSE]

RECURSIVE MtfEncodeRun(_, _, _)
\* the for loop of encode_move_to_front up to, not including, element n
MtfEncodeRun(inp, n, st) ==
    IF st.panic \/ st.pos >= n THEN st
    ELSE MtfEncodeRun(inp, n, MtfEncodeStep(inp, st))

\* encode_move_to_front as one call: [panic, result, ordering]
EncodeMoveToFront(inp, ordering) ==
    MtfEncodeRun(inp, Len(inp), MtfStart(ordering))

RECURSIVE MtfDecodeRun(_, _)
\* the for loop of decode_move_to_front
MtfDecodeRun(inp, st) ==
    IF st.panic \/ st.pos >= Len(inp) THEN st
    ELSE MtfDecodeRun(inp, MtfDecodeStep(inp, st))

\* decode_move_to_front as one call: [panic, result, ordering]
DecodeMoveToFront(inp, ordering) == MtfDecodeRun(inp, MtfStart(ordering))

\* the caller's ordering: the encoder works on one copy, the decoder on
\* another
InitMTF ==
    /\ input \in Inputs
    /\ \E ordering \in Initials : args = [ordering |-> ordering]
    /\ enc = MtfStart(args.ordering)
    /\ dec = MtfStart(args.ordering)
    /\ pc = "encode"

MtfEncodeLoop ==
    /\ pc = "encode"
    /\ enc.pos < Len(input)
    /\ enc' = MtfEncodeStep(input, enc)
    /\ pc' = IF enc'.panic THEN "panic" ELSE pc
    /\ UNCHANGED <<input, args, dec>>

\* encode_move_to_front returns and its caller hands the indices to
\* decode_move_to_front
MtfEncodeReturn ==
    /\ pc = "encode"
    /\ enc.pos >= Len(input)
    /\ pc' = "decode"
    /\ UNCHANGED <<input, args, enc, dec>>

MtfDecodeLoop ==
    /\ pc = "decode"
    /\ dec.pos < Len(enc.result)
    /\ dec' = MtfDecodeStep(enc.result, dec)
    /\ pc' = IF dec'.panic THEN "panic" ELSE pc
    /\ UNCHANGED <<input, args, enc>>

MtfDecodeReturn ==
    /\ pc = "decode"
    /\ dec.pos >= Len(enc.result)
    /\ pc' = "done"
    /\ UNCHANGED <<input, args, enc, dec>>

NextMTF ==
    \/ MtfEncodeLoop
    \/ MtfEncodeReturn
    \/ MtfDecodeLoop
    \/ MtfDecodeReturn

SpecMTF == InitMTF /\ [][NextMTF]_vars

(***************************************************************************)
(* C6: when the ordering contains every symbol of the input, decoding the   *)
(* indices of encode_move_to_front on an equal, separate copy of the        *)
(* ordering gives back the input; neither call panics.                      *)
(***************************************************************************)
C6_MtfRoundTrip ==
    Covers(args.ordering, input) =>
        /\ pc # "panic"
        /\ pc = "done" => dec.result = input

\* a finished round trip of a full-length input that moved a symbol forward
C6_Witness ==
    /\ pc = "done"
    /\ Len(input) = MaxLen
    /\ \E k \in 1..Len(enc.result) : enc.result[k] > 0
    /\ dec.result = input

(***************************************************************************)
(* C7: the decoder's ordering after its step t equals the encoder's         *)
(* ordering after its step t, for every t; so both orderings are equal,     *)
(* element for element, when both calls have finished.                      *)
(***************************************************************************)
C7_MtfOrderingsAgree ==
    /\ pc \in {"decode", "done"} =>
          dec.ordering = MtfEncodeRun(input, dec.pos, MtfStart(args.ordering)).ordering
    /\ pc = "done" => dec.ordering = enc.ordering

\* both calls finished with an ordering that differs from the initial one
C7_Witness ==
    /\ pc = "done"
    /\ Len(input) = MaxLen
    /\ enc.ordering # args.ordering
    /\ dec.ordering = enc.ordering

\* decompression: the indices come from lzw_decode of a file, not from
\* encode_move_to_front in this run; enc.result holds them, the encode call
\* is not part of the run
InitMTFDecode ==
    /\ input = <<>>
    /\ \E ordering \in Initials : args = [ordering |-> ordering]
    /\ \E data \in IndexSeqs :
          enc = [MtfStart(args.ordering) EXCEPT !.result = data]
    /\ dec = MtfStart(args.ordering)
    /\ pc = "decode"

NextMTFDecode ==
    \/ MtfDecodeLoop
    \/ MtfDecodeReturn

SpecMTFDecode == InitMTFDecode /\ [][NextMTFDecode]_vars

(***************************************************************************)
(* C13: decode_move_to_front fails, returning no output, as soon as it      *)
(* meets an index >= the length of the ordering: every index it has passed  *)
(* was inside the ordering, whose length never changes, and the step that   *)
(* meets an index outside it panics without emitting a symbol or touching   *)
(* the ordering; a panicked call never returns.                             *)
(***************************************************************************)
C13_MtfDecodeIndexOutOfBounds ==
    /\ [](/\ Len(dec.ordering) = Len(args.ordering)
          /\ \A k \in 1..dec.pos : enc.result[k] < Len(args.ordering)
          /\ Len(dec.result) = dec.pos)
    /\ [][/\ (/\ pc = "decode"
              /\ dec.pos < Len(enc.result)
              /\ At(enc.result, dec.pos) >= Len(dec.ordering))
             => /\ pc' = "panic"
                /\ dec'.pos = dec.pos
                /\ dec'.result = dec.result
                /\ dec'.ordering = dec.ordering
          /\ pc = "panic" => pc' = "panic"]_vars

\* the call failed on an index equal to the length of the ordering, after it
\* had decoded at least one index and with indices still to come
C13_Witness ==
    /\ pc = "panic"
    /\ dec.pos >= 1
    /\ dec.ordering # args.ordering
    /\ At(enc.result, dec.pos) = Len(dec.ordering)
    /\ Len(enc.result) > dec.pos + 1

\* the input and the ordering of test_hello, e = 0, h = 1, l = 2 and o = 3
HELLO == <<1, 0, 2, 2, 3>>

EHLO == <<0, 1, 2, 3>>

\* the runs of InitMTF and the run of test_hello
InitMTFHello ==
    /\ \/ /\ input \in Inputs
          /\ \E ordering \in Initials : args = [ordering |-> ordering]
       \/ /\ input = HELLO
          /\ args = [ordering |-> EHLO]
    /\ enc = MtfStart(args.ordering)
    /\ dec = MtfStart(args.ordering)
    /\ pc = "encode"

SpecMTFHello == InitMTFHello /\ [][NextMTF]_vars

\* how often v occurs in s
Occurrences(s, v) == Cardinality({k \in 1..Len(s) : s[k] = v})

(***************************************************************************)
(* C29: a step of encode_move_to_front on symbol x emits the position k of  *)
(* the first occurrence of x in the ordering and leaves the ordering as x   *)
(* followed by the previous ordering without position k; the ordering stays *)
(* a permutation of its initial content; a symbol that immediately repeats  *)
(* is emitted as 0; h,e,l,l,o on e,h,l,o gives 1,1,2,0,3.                   *)
(***************************************************************************)
C29_MtfEncodeStep ==
    /\ [](/\ Len(enc.ordering) = Len(args.ordering)
          /\ \A k \in 1..Len(args.ordering) :
                Occurrences(enc.ordering, args.ordering[k]) =
                   Occurrences(args.ordering, args.ordering[k])
          /\ (input = HELLO /\ args.ordering = EHLO
                 /\ pc \in {"decode", "done"})
             => enc.result = <<1, 1, 2, 0, 3>>)
    /\ [][(pc = "encode" /\ enc'.result # enc.result) =>
            LET x == At(input, enc.pos)
                k == enc'.result[Len(enc'.result)]
                o == enc.ordering
            IN /\ enc'.result = Append(enc.result, k)
               /\ k < Len(o)
               /\ At(o, k) = x
               /\ \A n \in 0..(k - 1) : At(o, n) # x
               /\ enc'.ordering =
                     <<x>> \o [n \in 1..(Len(o) - 1) |->
                                  IF n <= k THEN o[n] ELSE o[n + 1]]
               /\ (enc.pos >= 1 /\ At(input, enc.pos - 1) = x) => k = 0]_vars

\* test_hello encoded
C29_Witness ==
    /\ pc = "done"
    /\ input = HELLO
    /\ args.ordering = EHLO
    /\ enc.result = <<1, 1, 2, 0, 3>>
    /\ enc.ordering = <<3, 2, 0, 1>>

(***************************************************************************)
(* Burrows-Wheeler transform                                                *)
(***************************************************************************)
\* input[a..].iter().chain(&input[..a]): the rotation that starts at a
Rotation(inp, a) == Slice(inp, a, Len(inp)) \o Slice(inp, 0, a)

RECURSIVE IterCmp(_, _, _)
\* Iterator::cmp from position k on: the lexicographic order of two sequences
IterCmp(x, y, k) ==
    IF k > Len(x) THEN (IF k > Len(y) THEN "Equal" ELSE "Less")
    ELSE IF k > Len(y) THEN "Greater"
    ELSE IF x[k] < y[k] THEN "Less"
    ELSE IF x[k] > y[k] THEN "Greater"
    ELSE IterCmp(x, y, k + 1)

\* a plausible slip: the rotations compared by their first symbol only
CmpFirstSymbol(inp, a, b) ==
    IterCmp(<<At(inp, a)>>, <<At(inp, b)>>, 1)

\* the closure given to rotations.sort_by
CmpRotations(inp, a, b) == IterCmp(Rotation(inp, a), Rotation(inp, b), 1)

\* a plausible slip: an unstable sort, which may put a before its equals
InsertRotationUnstable(inp, sorted, a) ==
    LET p == Cardinality({k \in 1..Len(sorted) :
                             CmpRotations(inp, sorted[k], a) = "Less"})
    IN SubSeq(sorted, 1, p) \o <<a>> \o SubSeq(sorted, p + 1, Len(sorted))

\* sort_by is stable: a goes behind every element that is not greater
InsertRotation(inp, sorted, a) ==
    LET p == Cardinality({k \in 1..Len(sorted) :
                             CmpRotations(inp, a, sorted[k]) # "Less"})
    IN SubSeq(sorted, 1, p) \o <<a>> \o SubSeq(sorted, p + 1, Len(sorted))

RECURSIVE SortRotations(_, _, _)
\* rotations.sort_by(...) on (0..n): the start positions from a on, inserted
\* in their original order
SortRotations(inp, a, sorted) ==
    IF a >= Len(inp) THEN sorted
    ELSE SortRotations(inp, a + 1, InsertRotation(inp, sorted, a))

\* encode_bwt: [panic, rotations, result, index]; position(..).unwrap()
\* panics when no rotation starts at 0
EncodeBwt(inp) ==
    LET n == Len(inp)
        rotations == SortRotations(inp, 0, <<>>)
        result == [r \in 1..n |-> At(inp, (rotations[r] + n - 1) % n)]
        original_index == Position(rotations, 0)
    IN IF original_index.some
       THEN [panic |-> FALSE, rotations |-> rotations, result |-> result,
             index |-> original_index.val]
       ELSE [panic |-> TRUE, rotations |-> rotations, result |-> result,
             index |-> 0]

\* table.sort_by(|a, b| a.1.cmp(&b.1)), stable: x = <<position, symbol>> goes
\* behind every element whose symbol is not greater
InsertTable(sorted, x) ==
    LET p == Cardinality({k \in 1..Len(sorted) : ~(x[2] < sorted[k][2])})
    IN SubSeq(sorted, 1, p) \o <<x>> \o SubSeq(sorted, p + 1, Len(sorted))

RECURSIVE SortTable(_, _, _)
\* input.iter().enumerate() sorted by symbol
SortTable(inp, j, sorted) ==
    IF j >= Len(inp) THEN sorted
    ELSE SortTable(inp, j + 1, InsertTable(sorted, <<j, At(inp, j)>>))

\* decode_bwt up to its loop: [table, i, result, panic]; table[index] panics
\* when index is out of bounds
BwtDecodeStart(inp, index) ==
    LET table == SortTable(inp, 0, <<>>)
    IN IF index >= Len(table)
       THEN [table |-> table, i |-> 0, result |-> <<>>, panic |-> TRUE]
       ELSE [table |-> table, i |-> At(table, index)[1],
             result |-> <<At(table, index)[2]>>, panic |-> FALSE]

\* one iteration of while i != index
BwtDecodeStep(st) ==
    [st EXCEPT !.result = Append(st.result, At(st.table, st.i)[2]),
               !.i = At(st.table, st.i)[1]]

RECURSIVE BwtDecodeRun(_, _)
\* while i != index { ... }
BwtDecodeRun(index, st) ==
    IF st.panic \/ st.i = index THEN st
    ELSE BwtDecodeRun(index, BwtDecodeStep(st))

\* decode_bwt as one call: [panic, result]
DecodeBwt(inp, index) == BwtDecodeRun(index, BwtDecodeStart(inp, index))

InitBWT ==
    /\ input \in Inputs
    /\ args = <<>>
    /\ enc = [panic |-> FALSE, rotations |-> <<>>, result |-> <<>>, index |-> 0]
    /\ dec = [table |-> <<>>, i |-> 0, result |-> <<>>, panic |-> FALSE]
    /\ pc = "encode"

\* the call of encode_bwt; its caller hands result and index to decode_bwt
BwtEncode ==
    /\ pc = "encode"
    /\ enc' = EncodeBwt(input)
    /\ pc' = IF enc'.panic THEN "panic" ELSE "decode"
    /\ UNCHANGED <<input, args, dec>>

BwtDecodeEnter ==
    /\ pc = "decode"
    /\ dec' = BwtDecodeStart(enc.result, enc.index)
    /\ pc' = IF dec'.panic THEN "panic" ELSE "loop"
    /\ UNCHANGED <<input, args, enc>>

BwtDecodeLoop ==
    /\ pc = "loop"
    /\ dec.i # enc.index
    /\ dec' = BwtDecodeStep(dec)
    /\ UNCHANGED <<pc, input, args, enc>>

BwtDecodeReturn ==
    /\ pc = "loop"
    /\ dec.i = enc.index
    /\ pc' = "done"
    /\ UNCHANGED <<input, args, enc, dec>>

NextBWT ==
    \/ BwtEncode
    \/ BwtDecodeEnter
    \/ BwtDecodeLoop
    \/ BwtDecodeReturn

SpecBWT == InitBWT /\ [][NextBWT]_vars

\* the cyclic rotation of s that starts at position a (0-based), symbol by
\* symbol
CyclicShift(s, a) == [k \in 1..Len(s) |-> s[((a + k - 1) % Len(s)) + 1]]

\* x comes before y in the lexicographic order
LexLess(x, y) ==
    \E k \in 1..Len(x) : x[k] < y[k] /\ \A m \in 1..(k - 1) : x[m] = y[m]

\* the rank of the rotation starting at a among all rotations of s sorted
\* lexicographically, equal rotations in increasing start position
RotationRank(s, a) ==
    Cardinality({b \in 0..(Len(s) - 1) :
                    \/ LexLess(CyclicShift(s, b), CyclicShift(s, a))
                    \/ CyclicShift(s, b) = CyclicShift(s, a) /\ b < a})

\* s is a shorter block repeated: some proper rotation of s equals s
Periodic(s) == \E a \in 1..(Len(s) - 1) : CyclicShift(s, a) = s

(***************************************************************************)
(* C4: for every nonempty input, also a single symbol, one symbol repeated  *)
(* or a short block repeated, decode_bwt applied to the result and index    *)
(* of encode_bwt gives back the input; neither call panics.                 *)
(***************************************************************************)
C4_BwtRoundTrip ==
    input # <<>> =>
        /\ pc # "panic"
        /\ pc = "done" => dec.result = input

(***************************************************************************)
(* C8: on the empty input encode_bwt completes with an empty result, and    *)
(* decode_bwt applied to that result completes with the empty sequence.     *)
(***************************************************************************)
C8_BwtEmptyRoundTrip ==
    input = <<>> =>
        /\ pc # "panic"
        /\ pc = "done" => dec.result = <<>>

(***************************************************************************)
(* C9: for every nonempty input the index returned by encode_bwt is less    *)
(* than the length of the input and is the rank, among all cyclic rotations *)
(* sorted lexicographically with equal rotations in increasing start        *)
(* position, of the rotation that starts at position 0.                     *)
(***************************************************************************)
C9_BwtIndexIsRank ==
    (pc \in {"decode", "loop", "done"} /\ input # <<>>) =>
        /\ enc.index < Len(input)
        /\ enc.index = RotationRank(input, 0)

\* encode_bwt returned for a block-repeated input, whose rotation 0 has an
\* equal and is not the first of the sorted rotations
C9_Witness ==
    /\ pc = "decode"
    /\ Periodic(input)
    /\ enc.index > 0
    /\ enc.index = RotationRank(input, 0)

\* b"banana" of the documentation example, with a = 0, b = 1, n = 2
BANANA == <<1, 0, 2, 0, 2, 0>>

\* the inputs of InitBWT, and hello of test_bwt (HELLO, with e = 0, h = 1,
\* l = 2, o = 3) and banana of the documentation example
InitBWTDoc ==
    /\ input \in Inputs \cup {HELLO, BANANA}
    /\ args = <<>>
    /\ enc = [panic |-> FALSE, rotations |-> <<>>, result |-> <<>>,
              index |-> 0]
    /\ dec = [table |-> <<>>, i |-> 0, result |-> <<>>, panic |-> FALSE]
    /\ pc = "encode"

SpecBWTDoc == InitBWTDoc /\ [][NextBWT]_vars

(***************************************************************************)
(* C30: for every nonempty input s of length n the result of encode_bwt    *)
(* has length n, and its element of rank r is the last symbol of the       *)
(* rotation of s of rank r when the n rotations are sorted by comparing    *)
(* whole rotations, equal rotations in increasing start position; so the   *)
(* result is a permutation of s.  hello gives h,o,e,l,l with index 1 and   *)
(* banana gives n,n,b,a,a,a with index 3.                                  *)
(***************************************************************************)
C30_BwtResultIsLastColumn ==
    (pc \in {"decode", "loop", "done"} /\ input # <<>>) =>
        LET n == Len(input) IN
        /\ Len(enc.result) = n
        /\ \A a \in 0..(n - 1) :
              enc.result[RotationRank(input, a) + 1]
                  = CyclicShift(input, a)[n]
        /\ \A r \in 0..(n - 1) : \E a \in 0..(n - 1) :
              RotationRank(input, a) = r
        /\ \A k \in 1..n : Occurrences(enc.result, input[k])
                                = Occurrences(input, input[k])
        /\ input = HELLO =>
              enc.result = <<1, 3, 0, 2, 2>> /\ enc.index = 1
        /\ input = BANANA =>
              enc.result = <<2, 2, 1, 0, 0, 0>> /\ enc.index = 3

\* encode_bwt returned for banana, whose rotations starting with a differ
\* only after their first symbol
C30_Witness ==
    /\ pc = "decode"
    /\ input = BANANA
    /\ enc.result = <<2, 2, 1, 0, 0, 0>>
    /\ enc.index = 3

(***************************************************************************)
(* The STACK pipeline of the command line tool                              *)
(***************************************************************************)
\* the number of values of a u8
U8Values == 256

\* x as u8
AsU8(x) == x % U8Values

\* LZW_DICIONARY: every byte value in increasing order; the model's bytes are
\* the NumSyms values of Symbols
LZW_DICIONARY == [k \in 1..NumSyms |-> k - 1]

\* mtf.into_iter().map(|x| x as u8).collect()
MapAsU8(v) == [k \in 1..Len(v) |-> AsU8(v[k])]

InitSTACK ==
    /\ input \in Inputs
    /\ \E la \in Params : args = [lookahead_max |-> la]
    /\ enc = [bwt |-> <<>>, index |-> 0, ordering |-> <<>>, mtf |-> <<>>,
              lzw |-> <<>>]
    /\ dec = [ordering |-> <<>>, mtf |-> <<>>, bwt |-> <<>>, data |-> <<>>]
    /\ pc = "encode_bwt"

\* let (bwt, index) = encode_bwt(&input_data)
StackEncodeBwt ==
    /\ pc = "encode_bwt"
    /\ LET r == EncodeBwt(input)
       IN IF r.panic THEN pc' = "panic" /\ UNCHANGED enc
          ELSE /\ pc' = "encode_mtf"
               /\ enc' = [enc EXCEPT !.bwt = r.result, !.index = r.index]
    /\ UNCHANGED <<input, args, dec>>

\* let mut ordering = LZW_DICIONARY.to_vec();
\* let mtf = encode_move_to_front(&bwt, &mut ordering), each index as u8
StackEncodeMtf ==
    /\ pc = "encode_mtf"
    /\ LET r == EncodeMoveToFront(enc.bwt, LZW_DICIONARY)
       IN IF r.panic THEN pc' = "panic" /\ UNCHANGED enc
          ELSE /\ pc' = "lzw_encode"
               /\ enc' = [enc EXCEPT !.mtf = MapAsU8(r.result),
                                     !.ordering = r.ordering]
    /\ UNCHANGED <<input, args, dec>>

\* lzw_encode(mtf.as_slice(), LZW_DICIONARY, lookahead_max); index and indices
\* are written to the file and read back by the decompressing run
StackLzwEncode ==
    /\ pc = "lzw_encode"
    /\ LET r == LzwEncode(enc.mtf, LZW_DICIONARY, args.lookahead_max)
       IN IF r.panic THEN pc' = "panic" /\ UNCHANGED enc
          ELSE pc' = "lzw_decode" /\ enc' = [enc EXCEPT !.lzw = r.output]
    /\ UNCHANGED <<input, args, dec>>

\* let mut ordering = LZW_DICIONARY.to_vec();
\* let mtf = lzw_decode(&data, &ordering), each symbol as usize
StackLzwDecode ==
    /\ pc = "lzw_decode"
    /\ LET r == LzwDecode(enc.lzw, LZW_DICIONARY)
       IN IF r.panic THEN pc' = "panic" /\ UNCHANGED dec
          ELSE /\ pc' = "decode_mtf"
               /\ dec' = [dec EXCEPT !.mtf = r.output,
                                     !.ordering = LZW_DICIONARY]
    /\ UNCHANGED <<input, args, enc>>

\* let bwt = decode_move_to_front(mtf.as_slice(), &mut ordering), each
\* symbol as u8
StackDecodeMtf ==
    /\ pc = "decode_mtf"
    /\ LET r == DecodeMoveToFront(dec.mtf, dec.ordering)
       IN IF r.panic THEN pc' = "panic" /\ UNCHANGED dec
          ELSE /\ pc' = "decode_bwt"
               /\ dec' = [dec EXCEPT !.bwt = MapAsU8(r.result),
                                     !.ordering = r.ordering]
    /\ UNCHANGED <<input, args, enc>>

\* decode_bwt(bwt.as_slice(), index)
StackDecodeBwt ==
    /\ pc = "decode_bwt"
    /\ LET r == DecodeBwt(dec.bwt, enc.index)
       IN IF r.panic THEN pc' = "panic" /\ UNCHANGED dec
          ELSE pc' = "done" /\ dec' = [dec EXCEPT !.data = r.result]
    /\ UNCHANGED <<input, args, enc>>

NextSTACK ==
    \/ StackEncodeBwt
    \/ StackEncodeMtf
    \/ StackLzwEncode
    \/ StackLzwDecode
    \/ StackDecodeMtf
    \/ StackDecodeBwt

SpecSTACK == InitSTACK /\ [][NextSTACK]_vars

(***************************************************************************)
(* C5: for every byte buffer and every lookahead_max >= 1, STACK            *)
(* compression followed by STACK decompression yields exactly the buffer;   *)
(* no call of the pipeline panics.                                          *)
(***************************************************************************)
C5_StackRoundTrip ==
    args.lookahead_max >= 1 =>
        /\ pc # "panic"
        /\ pc = "done" => dec.data = input

====
